---- MODULE Spec2Model ----
(***************************************************************************)
(* Sandbox orchestrator of ryarmst/apptraining: the containers table, the  *)
(* exercise_progress table, the system_logs journal, the docker runtime,   *)
(* the process-local activity map and per-container watchers, and the      *)
(* request handlers (launch, stop, completion callback, subdomain proxy,   *)
(* user deletion, exercise upload), the periodic cleanup and the server    *)
(* start.                                                                  *)
(*                                                                         *)
(* Every await of a handler is a suspension point: a handler is a small    *)
(* process whose steps are the database / runtime calls it awaits, and     *)
(* steps of different handlers interleave freely.  Consecutive awaited     *)
(* calls are one step where the earlier one only reads a row for the       *)
(* journal or only appends to the journal (nothing reads the journal       *)
(* back), so that the order of the other steps is kept.                    *)
(*                                                                         *)
(* Time is counted in units of the watcher's re-arm delay (60000 ms); the  *)
(* idle timeout, the maximum lifetime and the purge age are scaled down    *)
(* keeping their order (1 < idle < lifetime < purge age).  A timer fires   *)
(* when it is due: the clock cannot pass a due watcher timer.              *)
(*                                                                         *)
(* The runtime answers every call, except for the faults SpecFaults adds:  *)
(* a container that exits by itself or is gone when it is stopped, an      *)
(* inspect that reports no port binding, and a cleanup run that is         *)
(* aborted by a rejected call.                                             *)
(***************************************************************************)
EXTENDS Integers, FiniteSets, Sequences, TLC

\* ---------------------------------------------------------------- bounds
MaxUsers == 1
MaxImages == 1
MaxContainers == 1
MaxRaceContainers == 4
MaxRaceImages == 4
MaxLaunches == 2
MaxTime == 5
MaxStopEvents == 1
MaxComplEvents == 2
MaxRegContainers == 2
MaxRegImages == 2
MaxUploads == 1
MaxBundleRows == 2

\* ------------------------------------------------------ program constants
\* containers.js:72  if (runningContainers.count >= 3)
MAX_PER_USER == 3
\* docker.js:227  setTimeout(checkActivity, 60000): the unit of time
CHECK_INTERVAL == 1
\* docker.js:15  15 * 60 * 1000, scaled
CONTAINER_IDLE_TIMEOUT == 2
\* docker.js:16  2 * 60 * 60 * 1000, scaled
CONTAINER_MAX_LIFETIME == 3
\* docker.js:323  datetime('now', '-24 hours'), scaled
PURGE_AGE == 4

Max(a, b) == IF a >= b THEN a ELSE b

Users == 1..MaxUsers
\* docker_images: the catalog (ids of the rows)
Images == 1..Max(MaxImages, Max(MaxRaceImages, MaxRegImages))
ContainerIds == 1..Max(MaxContainers, Max(MaxRaceContainers, MaxRegContainers))
Subdomains == ContainerIds
Launchers == 1..MaxLaunches

VARIABLES
    now,        \* Date.now() / CURRENT_TIMESTAMP, in units of CHECK_INTERVAL
    rows,       \* table containers, keyed by container_id
    progress,   \* table exercise_progress, keyed by (user_id, image_id)
    logs,       \* table system_logs: number of events per kind and target_id
    runtime,    \* docker: the labelled containers
    nextId,     \* docker: the next container id it hands out
    network,    \* docker: training_network exists
    activity,   \* global.containerActivity: subdomain -> callback (its watcher)
    watcher,    \* the monitorContainer closures and their timers
    launch,     \* POST /launch/:imageId requests in flight
    stopReq,    \* POST /:containerId/stop request in flight (owner or admin)
    compl,      \* POST /:subdomain/complete request in flight
    proxy,      \* subdomain request in flight
    cleanup,    \* runCleanup / cleanupResources: cleanupInProgress and its snapshots
    stopReturned, \* history: subdomains for which a stopContainer call has returned
    lastProxied, \* history: per subdomain, when proxy.web last forwarded a request (-1: never)
    users,      \* table users: the ids of the rows with role 'user'
    exercises,  \* table docker_images: the level column of the uploaded rows
    upload      \* POST /upload request in flight

vars == <<now, rows, progress, logs, runtime, nextId, network, activity,
          watcher, launch, stopReq, compl, proxy, cleanup, stopReturned, lastProxied,
          users, exercises, upload>>

\* ------------------------------------------------------------ the tables
NoRow == [status |-> "none", user |-> 0, image |-> 0, sub |-> 0, port |-> 0, created |-> 0]

NoProgress == [status |-> "none", attempts |-> 0]

NoLog == [created |-> 0, stopped |-> 0, completed |-> 0, details |-> {}]

NoCtr == [state |-> "absent", user |-> 0, sub |-> 0]

NoWatcher == [pc |-> "off", sub |-> 0, last |-> 0, start |-> 0, timer |-> 0, found |-> FALSE]

IdleLaunch == [pc |-> "idle", user |-> 0, image |-> 0, sub |-> 0, cid |-> 0, res |-> "none", echo |-> 0]

IdleStop == [pc |-> "idle", kind |-> "none", cid |-> 0, found |-> FALSE, res |-> "none",
             stopErr |-> FALSE, removeErr |-> FALSE]

IdleCompl == [pc |-> "idle", sub |-> 0, user |-> 0, image |-> 0, cid |-> 0, res |-> "none"]

IdleCleanup == [pc |-> "idle", db |-> {}, docker |-> {}, flag |-> FALSE, runs |-> 0,
                skipped |-> FALSE, last |-> "none"]

IdleProxy == [pc |-> "idle", sub |-> 0, port |-> 0, late |-> FALSE, res |-> "none", host |-> <<>>]

NoBundle == [extract |-> FALSE, dockerfile |-> FALSE, metadata |-> "none", level |-> <<>>]

IdleUpload == [pc |-> "idle", level |-> <<>>, levelValue |-> <<>>, res |-> "none",
               archive |-> FALSE, workdir |-> FALSE, built |-> FALSE, bundle |-> NoBundle]

\* An existing-container query that looks for the wrong status.
RunningForStopped(u, e) ==
    {c \in ContainerIds : rows[c].status = "stopped" /\ rows[c].user = u /\ rows[c].image = e}

\* SELECT * FROM containers WHERE user_id = ? AND image_id = ? AND status = 'running'
RunningFor(u, e) ==
    {c \in ContainerIds : rows[c].status = "running" /\ rows[c].user = u /\ rows[c].image = e}

\* SELECT COUNT(*) FROM containers WHERE user_id = ? AND status = 'running'
RunningOf(u) ==
    {c \in ContainerIds : rows[c].status = "running" /\ rows[c].user = u}

\* A subdomain index that only covers the running rows.
BySubdomainRunning(s) == {c \in ContainerIds : rows[c].status = "running" /\ rows[c].sub = s}

\* SELECT * FROM containers WHERE subdomain = ?; the UNIQUE index on subdomain
BySubdomain(s) == {c \in ContainerIds : rows[c].status # "none" /\ rows[c].sub = s}

\* getContainerInfo: SELECT * FROM containers WHERE subdomain = ? AND status = 'running'
getContainerInfo(s) == {c \in ContainerIds : rows[c].status = "running" /\ rows[c].sub = s}

\* ------------------------------------------------------------------ Init
\* The state after startServer() on an empty database and an empty runtime.
Init ==
    /\ now = 0
    /\ rows = [c \in ContainerIds |-> NoRow]
    /\ progress = [k \in Users \X Images |-> NoProgress]
    /\ logs = [c \in ContainerIds |-> NoLog]
    /\ runtime = [c \in ContainerIds |-> NoCtr]
    /\ nextId = 1
    /\ network = FALSE
    /\ activity = [s \in Subdomains |-> 0]
    /\ watcher = [c \in ContainerIds |-> NoWatcher]
    /\ launch = [r \in Launchers |-> IdleLaunch]
    /\ stopReq = IdleStop
    /\ compl = IdleCompl
    /\ proxy = IdleProxy
    /\ cleanup = IdleCleanup
    /\ stopReturned = {}
    /\ lastProxied = [s \in Subdomains |-> -1]
    /\ users = Users
    /\ exercises = {}
    /\ upload = IdleUpload

\* ---------------------------------------------------------------- launch
\* router.post('/launch/:imageId') by the session's user u for image e: the
\* existing-container query and the 400 it answers with.  limit bounds the
\* number of launches of a run (a bound of the model).
LaunchCheckExisting(r, u, e, limit) ==
    /\ launch[r].pc \in {"idle", "done"}
    /\ (nextId - 1) + Cardinality({q \in Launchers : launch[q].pc \in {"count", "create"}}) < limit
    /\ LET found == RunningFor(u, e)
           req == [IdleLaunch EXCEPT !.user = u, !.image = e]
       IN IF found # {}
          THEN \E c \in found :
                 launch' = [launch EXCEPT ![r] = [req EXCEPT !.pc = "done", !.res = "AlreadyRunning",
                                                             !.echo = rows[c].sub]]
          ELSE launch' = [launch EXCEPT ![r] = [req EXCEPT !.pc = "count"]]
    /\ UNCHANGED <<now, rows, progress, logs, runtime, nextId, network, activity,
                   watcher, stopReq, compl, proxy, cleanup, stopReturned, lastProxied,
                   users, exercises, upload>>

\* A count check that compares with > instead of >=.
LaunchCountRunningStrict(r) ==
    /\ launch[r].pc = "count"
    /\ launch' = IF Cardinality(RunningOf(launch[r].user)) > MAX_PER_USER
                 THEN [launch EXCEPT ![r].pc = "done", ![r].res = "QuotaExceeded"]
                 ELSE [launch EXCEPT ![r].pc = "create"]
    /\ UNCHANGED <<now, rows, progress, logs, runtime, nextId, network, activity,
                   watcher, stopReq, compl, proxy, cleanup, stopReturned, lastProxied,
                   users, exercises, upload>>

\* The running-count query and the 400 it answers with.
LaunchCountRunning(r) ==
    /\ launch[r].pc = "count"
    /\ launch' = IF Cardinality(RunningOf(launch[r].user)) >= MAX_PER_USER
                 THEN [launch EXCEPT ![r].pc = "done", ![r].res = "QuotaExceeded"]
                 ELSE [launch EXCEPT ![r].pc = "create"]
    /\ UNCHANGED <<now, rows, progress, logs, runtime, nextId, network, activity,
                   watcher, stopReq, compl, proxy, cleanup, stopReturned, lastProxied,
                   users, exercises, upload>>

\* createContainer up to container.inspect(): the network is ensured,
\* uuidv4() returns s, the image row is read (a missing image throws: 500),
\* docker creates the container named training-<s> (a name in use is
\* refused: 500), starts it and reports its id and host port.
createContainerStart(r, s, catalog) ==
    /\ launch[r].pc = "create"
    /\ nextId \in ContainerIds
    /\ network' = TRUE
    /\ IF launch[r].image \in catalog
          /\ \A c \in ContainerIds : runtime[c].state = "absent" \/ runtime[c].sub # s
       THEN /\ runtime' = [runtime EXCEPT ![nextId] =
                              [state |-> "up", user |-> launch[r].user, sub |-> s]]
            /\ nextId' = nextId + 1
            /\ launch' = [launch EXCEPT ![r].pc = "insert", ![r].cid = nextId, ![r].sub = s]
       ELSE /\ launch' = [launch EXCEPT ![r].pc = "done", ![r].res = "error"]
            /\ UNCHANGED <<runtime, nextId>>
    /\ UNCHANGED <<now, rows, progress, logs, activity,
                   watcher, stopReq, compl, proxy, cleanup, stopReturned, lastProxied,
                   users, exercises, upload>>

\* createContainer up to container.inspect() when the runtime reports no
\* binding for 8080/tcp (the container runs unbound, st "up", or has exited
\* already, st "exited"): Ports['8080/tcp'][0] throws a TypeError, which the
\* catch logs and rethrows (500).
createContainerUnbound(r, s, catalog, st) ==
    /\ launch[r].pc = "create"
    /\ nextId \in ContainerIds
    /\ launch[r].image \in catalog
    /\ \A c \in ContainerIds : runtime[c].state = "absent" \/ runtime[c].sub # s
    /\ network' = TRUE
    /\ runtime' = [runtime EXCEPT ![nextId] = [state |-> st, user |-> launch[r].user, sub |-> s]]
    /\ nextId' = nextId + 1
    /\ launch' = [launch EXCEPT ![r].pc = "done", ![r].res = "TypeError", ![r].cid = nextId,
                                ![r].sub = s]
    /\ UNCHANGED <<now, rows, progress, logs, activity,
                   watcher, stopReq, compl, proxy, cleanup, stopReturned, lastProxied,
                   users, exercises, upload>>

\* The row createContainer inserts: status 'running', created_at CURRENT_TIMESTAMP.
NewRow(r) ==
    [status |-> "running", user |-> launch[r].user, image |-> launch[r].image,
     sub |-> launch[r].sub, port |-> launch[r].cid, created |-> now]

\* monitorContainer: lastActivity = startTime = Date.now(); the first
\* checkActivity runs at once, finds nothing to do and re-arms the timer.
NewWatcher(s) ==
    [pc |-> "wait", sub |-> s, last |-> now, start |-> now, timer |-> now + CHECK_INTERVAL,
     found |-> FALSE]

\* The INSERT INTO containers (UNIQUE subdomain), then monitorContainer and
\* the container_created event.  A rejected insert throws (500) before either.
createContainerInsert(r) ==
    /\ launch[r].pc = "insert"
    /\ LET c == launch[r].cid
           s == launch[r].sub
       IN IF BySubdomain(s) # {}
          THEN /\ launch' = [launch EXCEPT ![r].pc = "done", ![r].res = "error"]
               /\ UNCHANGED <<rows, activity, watcher, logs>>
          ELSE /\ rows' = [rows EXCEPT ![c] = NewRow(r)]
               /\ activity' = [activity EXCEPT ![s] = c]
               /\ watcher' = [watcher EXCEPT ![c] = NewWatcher(s)]
               /\ logs' = [logs EXCEPT ![c].created = 1]
               /\ launch' = [launch EXCEPT ![r].pc = "progress"]
    /\ UNCHANGED <<now, progress, runtime, nextId, network,
                   stopReq, compl, proxy, cleanup, stopReturned, lastProxied,
                   users, exercises, upload>>

\* The HTTP status of the launch route's answer: res.json (200), the two
\* refusals (400), the catch of anything thrown (500).
LaunchStatus(res) ==
    CASE res = "ok" -> 200
      [] res \in {"AlreadyRunning", "QuotaExceeded"} -> 400
      [] OTHER -> 500

\* An upsert that starts the count again at every launch.
ProgressOnLaunchOnce(p) == [status |-> "in_progress", attempts |-> 1]

\* INSERT OR REPLACE INTO exercise_progress ... 'in_progress', attempts + 1
ProgressOnLaunch(p) == [status |-> "in_progress", attempts |-> p.attempts + 1]

\* The progress upsert, then res.json(containerInfo).
LaunchProgress(r) ==
    /\ launch[r].pc = "progress"
    /\ progress' = [progress EXCEPT ![<<launch[r].user, launch[r].image>>] = ProgressOnLaunch(@)]
    /\ launch' = [launch EXCEPT ![r].pc = "done", ![r].res = "ok"]
    /\ UNCHANGED <<now, rows, logs, runtime, nextId, network, activity,
                   watcher, stopReq, compl, proxy, cleanup, stopReturned, lastProxied,
                   users, exercises, upload>>

\* ----------------------------------------------------------- stopContainer
\* The awaited steps of stopContainer(c), shared by the stop requests and
\* the watchers.

\* SELECT user_id, image_id FROM containers WHERE container_id = ?
stopContainerInfo(c) == rows[c].status # "none"

\* container.stop() is refused for a container that is not running (304)
\* or that is gone (404).
dockerStopFails(c) == runtime[c].state # "up"

\* container.remove({force: true}) is refused for a container that is gone (404).
dockerRemoveFails(c) == runtime[c].state = "absent"

\* A stopContainer that rethrows the error of container.stop() or remove().
stopContainerRethrows(stopErr, removeErr) == ~(stopErr \/ removeErr)

\* The try/catch around container.stop() and the one around
\* container.remove(): the error is logged (warn) and stopContainer goes on.
stopContainerCaught(stopErr, removeErr) == TRUE

\* container.stop() then container.remove({force}): the container is gone
\* afterwards.
stopContainerRuntime(c) == [runtime EXCEPT ![c] = NoCtr]

\* The keys of the details object of the container_stopped event:
\* {image_id: containerInfo.image_id}.
stopContainerDetails == {"image_id"}

\* if (containerInfo) logEvent('container_stopped', ...)
stopContainerLog(c, found) ==
    IF found THEN [logs EXCEPT ![c].stopped = @ + 1, ![c].details = stopContainerDetails]
    ELSE logs

\* A stopContainer whose UPDATE leaves the status as it was.
StatusAfterStopKept(row) == row.status

\* The status the UPDATE of stopContainer writes.
StatusAfterStop(row) == "stopped"

\* UPDATE containers SET status = 'stopped' WHERE container_id = ?
stopContainerUpdate(c) ==
    IF rows[c].status = "none" THEN rows
    ELSE [rows EXCEPT ![c].status = StatusAfterStop(rows[c])]

\* SELECT subdomain ...; global.containerActivity.delete(row.subdomain)
stopContainerEvict(c) ==
    IF rows[c].status = "none" THEN activity
    ELSE [activity EXCEPT ![rows[c].sub] = 0]

\* history: the subdomains of the containers a stopContainer call returned for
stopContainerReturned(c) ==
    IF rows[c].status = "none" THEN stopReturned ELSE stopReturned \cup {rows[c].sub}

\* ------------------------------------------------------------ stop requests
\* The sessions that send stop requests: the subjects and one more user,
\* who launches nothing.
Requesters == 1..(MaxUsers + 1)

\* An ownership query that does not look at user_id.
OwnedByAnyone(u, c) == rows[c].status # "none"

\* SELECT * FROM containers WHERE container_id = ? AND user_id = ?
OwnedBy(u, c) == rows[c].status # "none" /\ rows[c].user = u

\* router.post('/:containerId/stop') of containers.js (kind "user", by the
\* session's user u: the ownership query, else 404) and of the admin router
\* (kind "admin"), up to the first query of stopContainer.
StopBegin(kind, u, c) ==
    /\ stopReq.pc \in {"idle", "done"}
    /\ c < nextId
    /\ logs[c].stopped < MaxStopEvents
    /\ stopReq' = IF kind = "user" /\ ~OwnedBy(u, c)
                  THEN [IdleStop EXCEPT !.pc = "done", !.res = "404", !.kind = kind, !.cid = c,
                                        !.found = stopContainerInfo(c)]
                  ELSE [IdleStop EXCEPT !.pc = "runtime", !.kind = kind, !.cid = c,
                                        !.found = stopContainerInfo(c)]
    /\ UNCHANGED <<now, rows, progress, logs, runtime, nextId, network, activity,
                   watcher, launch, compl, proxy, cleanup, stopReturned, lastProxied,
                   users, exercises, upload>>

\* The HTTP status of a stop route's answer: res.json (200), the 404 of the
\* ownership query, the catch of anything thrown (500).
StopStatus(res) ==
    CASE res = "ok" -> 200
      [] res = "404" -> 404
      [] OTHER -> 500

\* The stop request inside stopContainer: the two runtime calls and the
\* container_stopped event.  An error that escapes is answered 500.
StopRuntime ==
    /\ stopReq.pc = "runtime"
    /\ runtime' = stopContainerRuntime(stopReq.cid)
    /\ LET stopErr == dockerStopFails(stopReq.cid)
           removeErr == dockerRemoveFails(stopReq.cid)
       IN IF stopContainerCaught(stopErr, removeErr)
          THEN /\ logs' = stopContainerLog(stopReq.cid, stopReq.found)
               /\ stopReq' = [stopReq EXCEPT !.pc = "update", !.stopErr = stopErr,
                                             !.removeErr = removeErr]
          ELSE /\ logs' = logs
               /\ stopReq' = [stopReq EXCEPT !.pc = "done", !.res = "500", !.stopErr = stopErr,
                                             !.removeErr = removeErr]
    /\ UNCHANGED <<now, rows, progress, nextId, network, activity,
                   watcher, launch, compl, proxy, cleanup, stopReturned, lastProxied,
                   users, exercises, upload>>

StopUpdate ==
    /\ stopReq.pc = "update"
    /\ rows' = stopContainerUpdate(stopReq.cid)
    /\ activity' = stopContainerEvict(stopReq.cid)
    /\ stopReturned' = stopContainerReturned(stopReq.cid)
    /\ stopReq' = [stopReq EXCEPT !.pc = "done", !.res = "ok"]
    /\ UNCHANGED <<now, progress, logs, runtime, nextId, network,
                   watcher, launch, compl, proxy, cleanup, lastProxied,
                   users, exercises, upload>>

\* ----------------------------------------------------------------- watcher
\* A checkActivity that only looks at the lifetime.
ReapDueLifetimeOnly(w, t) == t - w.start >= CONTAINER_MAX_LIFETIME

\* The condition of checkActivity, on the closure w at time t.
ReapDue(w, t) ==
    t - w.last >= CONTAINER_IDLE_TIMEOUT \/ t - w.start >= CONTAINER_MAX_LIFETIME

\* checkActivity of container c when its timer fires: call stopContainer and
\* end (return without re-arming), or re-arm the timer.
checkActivity(c) ==
    /\ watcher[c].pc = "wait"
    /\ watcher[c].timer = now
    /\ watcher' = IF ReapDue(watcher[c], now)
                  THEN [watcher EXCEPT ![c].pc = "runtime", ![c].found = stopContainerInfo(c)]
                  ELSE [watcher EXCEPT ![c].timer = now + CHECK_INTERVAL]
    /\ UNCHANGED <<now, rows, progress, logs, runtime, nextId, network, activity,
                   launch, stopReq, compl, proxy, cleanup, stopReturned, lastProxied,
                   users, exercises, upload>>

WatcherRuntime(c) ==
    /\ watcher[c].pc = "runtime"
    /\ runtime' = stopContainerRuntime(c)
    /\ IF stopContainerCaught(dockerStopFails(c), dockerRemoveFails(c))
       THEN /\ logs' = stopContainerLog(c, watcher[c].found)
            /\ watcher' = [watcher EXCEPT ![c].pc = "update"]
       ELSE /\ logs' = logs
            /\ watcher' = [watcher EXCEPT ![c] = [NoWatcher EXCEPT !.pc = "ended",
                                                                   !.sub = watcher[c].sub]]
    /\ UNCHANGED <<now, rows, progress, nextId, network, activity,
                   launch, stopReq, compl, proxy, cleanup, stopReturned, lastProxied,
                   users, exercises, upload>>

\* The watcher's stopContainer returns and checkActivity returns: the closure
\* has ended (pc "ended"; "off" is a container that has no watcher).
WatcherUpdate(c) ==
    /\ watcher[c].pc = "update"
    /\ rows' = stopContainerUpdate(c)
    /\ activity' = stopContainerEvict(c)
    /\ stopReturned' = stopContainerReturned(c)
    /\ watcher' = [watcher EXCEPT ![c] = [NoWatcher EXCEPT !.pc = "ended", !.sub = watcher[c].sub]]
    /\ UNCHANGED <<now, progress, logs, runtime, nextId, network,
                   launch, stopReq, compl, proxy, cleanup, lastProxied,
                   users, exercises, upload>>

\* An activity callback that does not reach the closure.
TouchLost(s) == watcher

\* The callback setupActivityMonitoring registered for subdomain s, if any:
\* lastActivity = Date.now() in the closure of its watcher.
Touch(s) ==
    IF activity[s] # 0 /\ watcher[activity[s]].pc \notin {"off", "ended"}
    THEN [watcher EXCEPT ![activity[s]].last = now]
    ELSE watcher

\* router.use('/:subdomain/*') of containers.js: any such API request touches.
ActivityRoute(s) ==
    /\ watcher' = Touch(s)
    /\ watcher' # watcher
    /\ UNCHANGED <<now, rows, progress, logs, runtime, nextId, network, activity,
                   launch, stopReq, compl, proxy, cleanup, stopReturned, lastProxied,
                   users, exercises, upload>>

\* Time passes, by one unit.  A due timer fires first, and the awaited calls
\* of a watcher's stopContainer (docker stops a container within 10 s) end
\* within the unit of time they started in.
Tick ==
    /\ now < MaxTime
    /\ \A c \in ContainerIds :
          /\ watcher[c].pc = "wait" => watcher[c].timer > now
          /\ watcher[c].pc \notin {"runtime", "update"}
    /\ now' = now + 1
    /\ UNCHANGED <<rows, progress, logs, runtime, nextId, network, activity,
                   watcher, launch, stopReq, compl, proxy, cleanup, stopReturned, lastProxied,
                   users, exercises, upload>>

\* ---------------------------------------------------------------- proxy
\* subdomainHandler for a request whose hostname carries the UUID s: the
\* awaited getContainerInfo(s).  late records that a stopContainer call for
\* that subdomain had returned before this read.
subdomainHandlerLookup(s) ==
    /\ proxy.pc \in {"idle", "done"}
    /\ LET found == getContainerInfo(s)
       IN proxy' = [IdleProxy EXCEPT !.pc = "respond", !.sub = s, !.late = (s \in stopReturned),
                                     !.port = IF found = {} THEN 0 ELSE rows[CHOOSE c \in found : TRUE].port]
    /\ UNCHANGED <<now, rows, progress, logs, runtime, nextId, network, activity,
                   watcher, launch, stopReq, compl, cleanup, stopReturned, lastProxied,
                   users, exercises, upload>>

\* The continuation: 404, or the activity callback and proxy.web to the port.
subdomainHandlerRespond ==
    /\ proxy.pc = "respond"
    /\ IF proxy.port = 0
       THEN /\ proxy' = [proxy EXCEPT !.pc = "done", !.res = "404"]
            /\ UNCHANGED <<watcher, lastProxied>>
       ELSE /\ proxy' = [proxy EXCEPT !.pc = "done", !.res = "forwarded"]
            /\ watcher' = Touch(proxy.sub)
            /\ lastProxied' = [lastProxied EXCEPT ![proxy.sub] = now]
    /\ UNCHANGED <<now, rows, progress, logs, runtime, nextId, network, activity,
                   launch, stopReq, compl, cleanup, stopReturned,
                   users, exercises, upload>>

\* --------------------------------------------------------------- router
\* A hostname is the sequence of its labels (hostname.split('.')), a label a
\* sequence of characters.
Digits == <<"0", "1", "2", "3", "4", "5", "6", "7", "8", "9">>

HexChars ==
    {"0", "1", "2", "3", "4", "5", "6", "7", "8", "9", "a", "b", "c", "d", "e", "f",
     "A", "B", "C", "D", "E", "F"}

\* A UUID string of version character v whose first group ends in the digit
\* of n: xxxxxxxn-0000-v000-8000-000000000000.
UuidString(v, n) ==
    [i \in 1..36 |->
        CASE i \in {9, 14, 19, 24} -> "-"
          [] i = 8 -> Digits[n + 1]
          [] i = 15 -> v
          [] i = 20 -> "8"
          [] OTHER -> "0"]

\* uuidv4(): the string the subdomain numbered s stands for.
uuidv4(s) == UuidString("4", s)

\* The subdomain number of a string, 0 when no subdomain is that string.
SubdomainOf(str) ==
    IF \E s \in Subdomains : uuidv4(s) = str
    THEN CHOOSE s \in Subdomains : uuidv4(s) = str
    ELSE 0

\* validate of the package uuid: eight-four-four-four-twelve hexadecimal
\* digits with a version digit 1 to 5 (later releases accept more) and a
\* variant digit 8, 9, a or b, or the nil UUID.
validateUUID(str) ==
    /\ Len(str) = 36
    /\ \/ \A i \in 1..36 :
             CASE i \in {9, 14, 19, 24} -> str[i] = "-"
               [] i = 15 -> str[i] \in {"1", "2", "3", "4", "5"}
               [] i = 20 -> str[i] \in {"8", "9", "a", "b", "A", "B"}
               [] OTHER -> str[i] \in HexChars
       \/ \A i \in 1..36 : str[i] = (IF i \in {9, 14, 19, 24} THEN "-" ELSE "0")

\* extractSubdomain: parts.length > 2 ? parts[0] : null (null is <<>>).
extractSubdomain(hostname) == IF Len(hostname) > 2 THEN hostname[1] ELSE <<>>

\* The dispatch of server.js (req.subdomains.length > 0: three labels or
\* more) and subdomainHandler up to the awaited getContainerInfo: next() for
\* no subdomain or one validateUUID refuses, else the lookup.
subdomainDispatch(hostname) ==
    /\ proxy.pc \in {"idle", "done"}
    /\ LET subdomain == extractSubdomain(hostname)
       IN IF Len(hostname) <= 2 \/ subdomain = <<>> \/ ~validateUUID(subdomain)
          THEN proxy' = [IdleProxy EXCEPT !.pc = "done", !.res = "next", !.host = hostname]
          ELSE LET s == SubdomainOf(subdomain)
                   found == IF s = 0 THEN {} ELSE getContainerInfo(s)
               IN proxy' = [IdleProxy EXCEPT !.pc = "respond", !.sub = s, !.host = hostname,
                                             !.late = (s \in stopReturned),
                                             !.port = IF found = {} THEN 0
                                                      ELSE rows[CHOOSE c \in found : TRUE].port]
    /\ UNCHANGED <<now, rows, progress, logs, runtime, nextId, network, activity,
                   watcher, launch, stopReq, compl, cleanup, stopReturned, lastProxied,
                   users, exercises, upload>>

\* The labels of the base domain apptraining.dbg.local.
BaseDomain == << <<"a", "p", "p">>, <<"d", "b", "g">>, <<"l", "o", "c", "a", "l">> >>

\* The hostnames of the requests: a subdomain of the base domain for every
\* uuid handed out, the same label with another version digit, the nil
\* UUID, a label one character short, a label with a letter that is no
\* hexadecimal digit, a word, the base domain itself, and a uuid label
\* with one label after it.
Hostnames ==
    LET Under(label) == <<label>> \o BaseDomain
    IN UNION {{Under(uuidv4(s)),
               Under(UuidString("1", s)),
               Under(SubSeq(uuidv4(s), 1, 35)),
               Under([uuidv4(s) EXCEPT ![1] = "g"]),
               <<uuidv4(s), <<"l", "o", "c", "a", "l">> >>} : s \in 1..MaxContainers}
       \cup {Under(UuidString("0", 0)), Under(<<"w", "w", "w">>), BaseDomain, SubSeq(BaseDomain, 2, 3)}

\* ------------------------------------------------------------ completion
\* A completion UPDATE that brings the record back to 'running'.
StatusAfterCompletionRunning(row) == "running"

\* A completion UPDATE that toggles an already completed record.
StatusAfterCompletionToggle(row) == IF row.status = "completed" THEN "stopped" ELSE "completed"

\* The status the UPDATE of handleExerciseCompletion writes.
StatusAfterCompletion(row) == "completed"

\* UPDATE containers SET status = 'completed' WHERE subdomain = ?
CompletionStatus(rw, s) ==
    [c \in ContainerIds |->
        IF rw[c].status # "none" /\ rw[c].sub = s
        THEN [rw[c] EXCEPT !.status = StatusAfterCompletion(rw[c])]
        ELSE rw[c]]

\* UPDATE exercise_progress SET status = 'completed' WHERE user_id = ? AND image_id = ?
CompletionProgress(pr, u, e) ==
    IF pr[<<u, e>>].status = "none" THEN pr
    ELSE [pr EXCEPT ![<<u, e>>].status = "completed"]

\* handleExerciseCompletion(s) run without interruption on the tables db:
\* the tables it leaves (unchanged when it throws 'Container not found').
handleExerciseCompletion(db, s) ==
    LET found == {c \in ContainerIds : db.rows[c].status # "none" /\ db.rows[c].sub = s}
    IN IF found = {} THEN db
       ELSE LET info == db.rows[CHOOSE c \in found : TRUE]
            IN [rows |-> CompletionStatus(db.rows, s),
                progress |-> CompletionProgress(db.progress, info.user, info.image)]

\* A completion handler that stops and removes the container of the subdomain.
CompletionRuntimeStops(rt, s) ==
    [c \in ContainerIds |-> IF rt[c].sub = s THEN NoCtr ELSE rt[c]]

\* What handleExerciseCompletion does to the runtime: it makes no docker call.
CompletionRuntime(rt, s) == rt

\* The HTTP status of the completion route's answer: res.json (200), the
\* catch of anything thrown (500).
CompletionHttpStatus(res) == IF res = "ok" THEN 200 ELSE 500

\* router.post('/:subdomain/complete'): the awaited SELECT by subdomain
\* ('Container not found' throws: 500), then the exercise_completed event.
CompletionLookup(s) ==
    /\ compl.pc \in {"idle", "done"}
    /\ LET found == BySubdomain(s)
       IN IF found = {}
          THEN /\ compl' = [IdleCompl EXCEPT !.pc = "done", !.sub = s, !.res = "error"]
               /\ UNCHANGED logs
          ELSE \E c \in found :
                 /\ logs[c].completed < MaxComplEvents
                 /\ logs' = [logs EXCEPT ![c].completed = @ + 1]
                 /\ compl' = [IdleCompl EXCEPT !.pc = "update", !.sub = s, !.cid = c,
                                               !.user = rows[c].user, !.image = rows[c].image]
    /\ UNCHANGED <<now, rows, progress, runtime, nextId, network, activity,
                   watcher, launch, stopReq, proxy, cleanup, stopReturned, lastProxied,
                   users, exercises, upload>>

\* The two UPDATEs of the Promise.all, then res.json({success: true}).
CompletionUpdate ==
    /\ compl.pc = "update"
    /\ progress' = CompletionProgress(progress, compl.user, compl.image)
    /\ rows' = CompletionStatus(rows, compl.sub)
    /\ runtime' = CompletionRuntime(runtime, compl.sub)
    /\ compl' = [IdleCompl EXCEPT !.pc = "done", !.sub = compl.sub, !.res = "ok"]
    /\ UNCHANGED <<now, logs, nextId, network, activity,
                   watcher, launch, stopReq, proxy, cleanup, stopReturned, lastProxied,
                   users, exercises, upload>>

\* --------------------------------------------------------------- cleanup
\* DELETE FROM containers WHERE status = 'stopped' AND created_at < now - 24 h
PurgeRows(rw, t) ==
    [c \in ContainerIds |->
        IF rw[c].status = "stopped" /\ rw[c].created < t - PURGE_AGE THEN NoRow ELSE rw[c]]

\* docker.listContainers({all: true, filters: {label: ['training.user']}})
ListContainers(rt) == {c \in ContainerIds : rt[c].state # "absent"}

\* pruneContainers: the containers that are not running are removed.
PruneContainers(rt) ==
    [c \in ContainerIds |-> IF rt[c].state = "up" THEN rt[c] ELSE NoCtr]

\* pruneNetworks: a network no container is attached to is removed.
PruneNetworks(rt, net) == net /\ \E c \in ContainerIds : rt[c].state # "absent"

\* A runCleanup that never finds a run in progress.
cleanupInProgressNever == FALSE

\* let cleanupInProgress of setupPeriodicCleanup.
cleanupInProgress == cleanup.flag

\* runCleanup when the interval timer fires and no run is in progress: the
\* flag is set, up to db.all('SELECT * FROM containers').  runs counts the
\* runs in progress.
runCleanup ==
    /\ ~cleanupInProgress
    /\ cleanup' = [cleanup EXCEPT !.pc = "list", !.flag = TRUE, !.runs = @ + 1, !.skipped = FALSE,
                                  !.db = {c \in ContainerIds : rows[c].status # "none"}]
    /\ UNCHANGED <<now, rows, progress, logs, runtime, nextId, network, activity,
                   watcher, launch, stopReq, compl, proxy, stopReturned, lastProxied,
                   users, exercises, upload>>

\* runCleanup when the interval timer fires during a run: it logs
\* 'Cleanup already in progress' and returns (skipped records that).
runCleanupSkipped ==
    /\ cleanupInProgress
    /\ ~cleanup.skipped
    /\ cleanup' = [cleanup EXCEPT !.skipped = TRUE]
    /\ UNCHANGED <<now, rows, progress, logs, runtime, nextId, network, activity,
                   watcher, launch, stopReq, compl, proxy, stopReturned, lastProxied,
                   users, exercises, upload>>

\* An awaited call of cleanupResources rejects (listContainers, the DELETE,
\* or a prune, after pruneContainers or before): the catch logs it, the run
\* ends there and the finally of runCleanup clears the flag.  last records
\* that the run failed.
cleanupResourcesThrows(pruned) ==
    /\ cleanup.pc \in {"list", "purge", "prune"}
    /\ pruned => cleanup.pc = "prune"
    /\ runtime' = IF pruned THEN PruneContainers(runtime) ELSE runtime
    /\ cleanup' = [IdleCleanup EXCEPT !.runs = cleanup.runs - 1, !.last = "failed"]
    /\ UNCHANGED <<now, rows, progress, logs, nextId, network, activity,
                   watcher, launch, stopReq, compl, proxy, stopReturned, lastProxied,
                   users, exercises, upload>>

cleanupResourcesList ==
    /\ cleanup.pc = "list"
    /\ cleanup' = [cleanup EXCEPT !.pc = "purge", !.docker = ListContainers(runtime)]
    /\ UNCHANGED <<now, rows, progress, logs, runtime, nextId, network, activity,
                   watcher, launch, stopReq, compl, proxy, stopReturned, lastProxied,
                   users, exercises, upload>>

cleanupResourcesPurge ==
    /\ cleanup.pc = "purge"
    /\ rows' = PurgeRows(rows, now)
    /\ cleanup' = [cleanup EXCEPT !.pc = "orphans"]
    /\ UNCHANGED <<now, progress, logs, runtime, nextId, network, activity,
                   watcher, launch, stopReq, compl, proxy, stopReturned, lastProxied,
                   users, exercises, upload>>

\* One turn of the loop over dockerContainers: an orphan is force-removed.
cleanupResourcesOrphans ==
    /\ cleanup.pc = "orphans"
    /\ IF cleanup.docker = {}
       THEN /\ cleanup' = [cleanup EXCEPT !.pc = "prune", !.db = {}]
            /\ UNCHANGED runtime
       ELSE LET c == CHOOSE x \in cleanup.docker : \A y \in cleanup.docker : x <= y
            IN /\ cleanup' = [cleanup EXCEPT !.docker = @ \ {c}]
               /\ runtime' = IF c \in cleanup.db THEN runtime ELSE [runtime EXCEPT ![c] = NoCtr]
    /\ UNCHANGED <<now, rows, progress, logs, nextId, network, activity,
                   watcher, launch, stopReq, compl, proxy, stopReturned, lastProxied,
                   users, exercises, upload>>

\* pruneContainers, pruneNetworks, pruneVolumes; then cleanupInProgress = false.
cleanupResourcesPrune ==
    /\ cleanup.pc = "prune"
    /\ runtime' = PruneContainers(runtime)
    /\ network' = PruneNetworks(PruneContainers(runtime), network)
    /\ cleanup' = [IdleCleanup EXCEPT !.runs = cleanup.runs - 1]
    /\ UNCHANGED <<now, rows, progress, logs, nextId, activity,
                   watcher, launch, stopReq, compl, proxy, stopReturned, lastProxied,
                   users, exercises, upload>>

\* An orphan loop that stops after the first orphan it removes.
RemoveOrphansFirst(rt, docker, db) ==
    LET orphans == docker \ db
    IN IF orphans = {} THEN rt
       ELSE [rt EXCEPT ![CHOOSE x \in orphans : \A y \in orphans : x <= y] = NoCtr]

\* The loop over dockerContainers run to its end: every listed container
\* that is not in the rows read at the start is force-removed.
RemoveOrphans(rt, docker, db) ==
    [c \in ContainerIds |-> IF c \in docker \ db THEN NoCtr ELSE rt[c]]

\* cleanupResources() run without interruption at time t on the tables and
\* the runtime st: what it leaves.
cleanupResources(st, t) ==
    LET db == {c \in ContainerIds : st.rows[c].status # "none"}
        docker == ListContainers(st.runtime)
        rt == PruneContainers(RemoveOrphans(st.runtime, docker, db))
    IN [rows |-> PurgeRows(st.rows, t),
        runtime |-> rt,
        network |-> PruneNetworks(rt, st.network)]

\* ------------------------------------------------------- the container exits
\* The process of container c ends by itself; RestartPolicy 'no' leaves the
\* container exited, still listed by the runtime under its name.
ContainerExits(c) ==
    /\ runtime[c].state = "up"
    /\ runtime' = [runtime EXCEPT ![c].state = "exited"]
    /\ UNCHANGED <<now, rows, progress, logs, nextId, network, activity,
                   watcher, launch, stopReq, compl, proxy, cleanup, stopReturned, lastProxied,
                   users, exercises, upload>>

\* ------------------------------------------------------------ delete user
\* router.delete('/users/:userId') by an admin for an existing user u whose
\* role is not admin: the rows of u are deleted from containers, from
\* exercise_progress and from users.  (A missing user is answered 404.)
DeleteUser(u) ==
    /\ u \in users
    /\ rows' = [c \in ContainerIds |-> IF rows[c].user = u THEN NoRow ELSE rows[c]]
    /\ progress' = [k \in Users \X Images |-> IF k[1] = u THEN NoProgress ELSE progress[k]]
    /\ users' = users \ {u}
    /\ UNCHANGED <<now, logs, runtime, nextId, network, activity,
                   watcher, launch, stopReq, compl, proxy, cleanup, stopReturned, lastProxied,
                   exercises, upload>>

\* ---------------------------------------------------------------- upload
\* A string is the sequence of its characters.
Letters ==
    <<"a", "b", "c", "d", "e", "f", "g", "h", "i", "j", "k", "l", "m",
      "n", "o", "p", "q", "r", "s", "t", "u", "v", "w", "x", "y", "z">>

Capitals ==
    <<"A", "B", "C", "D", "E", "F", "G", "H", "I", "J", "K", "L", "M",
      "N", "O", "P", "Q", "R", "S", "T", "U", "V", "W", "X", "Y", "Z">>

\* A comparison of the level as it was written.
toLowerCaseNone(str) == str

\* String.prototype.toLowerCase(): a capital becomes its small letter, any
\* other character stays.
toLowerCase(str) ==
    [i \in 1..Len(str) |->
        IF \E k \in 1..Len(Capitals) : Capitals[k] = str[i]
        THEN Letters[CHOOSE k \in 1..Len(Capitals) : Capitals[k] = str[i]]
        ELSE str[i]]

\* const validLevels = ['beginner', 'intermediate', 'advanced']
validLevels ==
    { <<"b", "e", "g", "i", "n", "n", "e", "r">>,
      <<"i", "n", "t", "e", "r", "m", "e", "d", "i", "a", "t", "e">>,
      <<"a", "d", "v", "a", "n", "c", "e", "d">> }

\* The bundle passes the level checks: metadata.level is not empty and its
\* lowercased value is one of validLevels.
LevelAccepted(level) == level # <<>> /\ toLowerCase(level) \in validLevels

\* A catch that removes the archive and leaves the working directory.
UploadFailedKeepsDirectory(up, res) ==
    [up EXCEPT !.pc = "done", !.res = res, !.archive = FALSE]

\* The catch of the handler: fs.unlink of the archive, fs.rm of the working
\* directory, then 400 with the error.
UploadFailed(up, res) ==
    [up EXCEPT !.pc = "done", !.res = res, !.archive = FALSE, !.workdir = FALSE]

\* The clean up after the insert: fs.rm of the working directory, fs.unlink
\* of the archive, then res.json.
UploadSucceeded(up) ==
    [up EXCEPT !.pc = "done", !.res = "ok", !.archive = FALSE, !.workdir = FALSE]

\* router.post('/upload') for a bundle whose metadata.json carries level
\* (the archive, the files and the other fields are in order): the checks
\* up to the level check; a refused bundle is answered 400 with the error.
\* MaxUploads bounds the rows of docker_images.
UploadValidate(level) ==
    /\ upload.pc \in {"idle", "done"}
    /\ Cardinality(exercises) < MaxUploads
    /\ upload' = IF LevelAccepted(level)
                 THEN [IdleUpload EXCEPT !.pc = "build", !.level = level,
                                         !.archive = TRUE, !.workdir = TRUE,
                                         !.levelValue = toLowerCase(level)]
                 ELSE UploadFailed([IdleUpload EXCEPT !.level = level, !.archive = TRUE,
                                                      !.workdir = TRUE], "InvalidBundle")
    /\ UNCHANGED <<now, rows, progress, logs, runtime, nextId, network, activity,
                   watcher, launch, stopReq, compl, proxy, cleanup, stopReturned, lastProxied,
                   users, exercises>>

\* The image is built and the row is inserted into docker_images with
\* level = levelValue, then res.json.
UploadInsert ==
    /\ upload.pc = "build"
    /\ exercises' = exercises \cup {upload.levelValue}
    /\ upload' = UploadSucceeded([upload EXCEPT !.built = TRUE])
    /\ UNCHANGED <<now, rows, progress, logs, runtime, nextId, network, activity,
                   watcher, launch, stopReq, compl, proxy, cleanup, stopReturned, lastProxied,
                   users>>

\* The bundles of the uploads: whether the archive can be extracted, whether
\* it holds a Dockerfile, what its metadata.json is (missing, not JSON, an
\* object without title, one without description, or one with both), and
\* the level it carries.
Bundles ==
    [extract : BOOLEAN, dockerfile : BOOLEAN,
     metadata : {"missing", "invalid", "noTitle", "noDescription", "ok"},
     level : {<<"b", "e", "g", "i", "n", "n", "e", "r">>,
              <<"A", "d", "v", "a", "n", "c", "e", "d">>,
              <<"e", "x", "p", "e", "r", "t">>,
              <<>>}]

\* The checks between the extraction and the build all pass.
BundleAccepted(b) ==
    b.extract /\ b.dockerfile /\ b.metadata = "ok" /\ LevelAccepted(b.level)

\* router.post('/upload') for bundle b: multer has stored the archive, the
\* working directory is made, the archive is extracted and the checks run;
\* the first one that throws takes the handler to its catch.
UploadBundle(b) ==
    /\ upload.pc \in {"idle", "done"}
    /\ Cardinality(exercises) < MaxBundleRows
    /\ LET received == [IdleUpload EXCEPT !.level = b.level, !.archive = TRUE, !.workdir = TRUE,
                                          !.bundle = b]
       IN upload' = IF BundleAccepted(b)
                    THEN [received EXCEPT !.pc = "build", !.levelValue = toLowerCase(b.level)]
                    ELSE UploadFailed(received, "InvalidBundle")
    /\ UNCHANGED <<now, rows, progress, logs, runtime, nextId, network, activity,
                   watcher, launch, stopReq, compl, proxy, cleanup, stopReturned, lastProxied,
                   users, exercises>>

\* docker.buildImage and followProgress: the build reports success (ok) or
\* an error, which rejects and takes the handler to its catch.
UploadBuild(ok) ==
    /\ upload.pc = "build"
    /\ upload' = IF ok THEN [upload EXCEPT !.pc = "insert", !.built = TRUE]
                 ELSE UploadFailed(upload, "BuildFailed")
    /\ UNCHANGED <<now, rows, progress, logs, runtime, nextId, network, activity,
                   watcher, launch, stopReq, compl, proxy, cleanup, stopReturned, lastProxied,
                   users, exercises>>

\* INSERT INTO docker_images: accepted (ok), then the clean up and res.json;
\* or rejected (image_id is UNIQUE), which takes the handler to its catch.
UploadInsertRow(ok) ==
    /\ upload.pc = "insert"
    /\ IF ok
       THEN /\ exercises' = exercises \cup {upload.levelValue}
            /\ upload' = UploadSucceeded(upload)
       ELSE /\ exercises' = exercises
            /\ upload' = UploadFailed(upload, "BuildFailed")
    /\ UNCHANGED <<now, rows, progress, logs, runtime, nextId, network, activity,
                   watcher, launch, stopReq, compl, proxy, cleanup, stopReturned, lastProxied,
                   users>>

\* The metadata.level values of the uploads: every way of writing a word
\* with capitals and small letters.
CaseVariants(word) ==
    { [i \in 1..Len(word) |->
          IF i \in S /\ \E k \in 1..Len(Letters) : Letters[k] = word[i]
          THEN Capitals[CHOOSE k \in 1..Len(Letters) : Letters[k] = word[i]]
          ELSE word[i]] : S \in SUBSET (1..Len(word)) }

\* Levels that are no case variant of a valid level.
OtherLevels ==
    CaseVariants(<<"e", "x", "p", "e", "r", "t">>)
    \cup { <<"b", "e", "g", "i", "n">>,
           <<"B", "e", "g", "i", "n", "n", "e", "r", "s">>,
           <<"a", "d", "v", "a", "n", "c", "e">>,
           <<"M", "E", "D", "I", "U", "M">>,
           <<"b", "e", "g", "i", "n", "n", "e", "r", " ">>,
           <<" ", "A", "d", "v", "a", "n", "c", "e", "d">>,
           <<"1">>,
           <<>> }

UploadLevels == (UNION {CaseVariants(w) : w \in validLevels}) \cup OtherLevels

\* ---------------------------------------------------------- server start
\* The process ends and startServer() runs again: the tables and the runtime
\* persist, every closure, timer, request and the activity map are gone.
\* setupDockerEvents ensures the network and the initial runCleanup is
\* awaited before the server listens, so it runs with nothing else in flight.
startServer ==
    /\ nextId > 1
    /\ LET rt == [c \in ContainerIds |->
                    IF c \in ListContainers(runtime) /\ rows[c].status = "none"
                    THEN NoCtr ELSE runtime[c]]
       IN /\ rows' = PurgeRows(rows, now)
          /\ runtime' = PruneContainers(rt)
          /\ network' = PruneNetworks(PruneContainers(rt), TRUE)
    /\ activity' = [s \in Subdomains |-> 0]
    /\ watcher' = [c \in ContainerIds |-> NoWatcher]
    /\ launch' = [r \in Launchers |-> IdleLaunch]
    /\ stopReq' = IdleStop
    /\ compl' = IdleCompl
    /\ proxy' = IdleProxy
    /\ cleanup' = IdleCleanup
    /\ upload' = IdleUpload
    /\ UNCHANGED <<now, progress, logs, nextId, stopReturned, lastProxied, users, exercises>>

\* ------------------------------------------------------------------ Next
\* The whole life of the sandboxes of MaxContainers launches.
Next ==
    \/ \E u \in Users, e \in 1..MaxImages : LaunchCheckExisting(1, u, e, MaxContainers)
    \/ LaunchCountRunning(1)
    \/ createContainerStart(1, nextId, Images)
    \/ createContainerInsert(1)
    \/ LaunchProgress(1)
    \/ \E k \in {"user", "admin"}, u \in Users, c \in 1..MaxContainers : StopBegin(k, u, c)
    \/ StopRuntime
    \/ StopUpdate
    \/ \E c \in 1..MaxContainers : checkActivity(c)
    \/ \E c \in 1..MaxContainers : WatcherRuntime(c)
    \/ \E c \in 1..MaxContainers : WatcherUpdate(c)
    \/ \E s \in 1..MaxContainers : ActivityRoute(s)
    \/ \E s \in 1..MaxContainers : subdomainHandlerLookup(s)
    \/ subdomainHandlerRespond
    \/ \E s \in 1..MaxContainers : CompletionLookup(s)
    \/ CompletionUpdate
    \/ startServer
    \/ Tick

Spec == Init /\ [][Next]_vars

\* Concurrent launches (and stops) of one subject over MaxRaceImages images;
\* no time passes.
NextRace ==
    \/ \E r \in Launchers, u \in Users, e \in 1..MaxRaceImages :
          LaunchCheckExisting(r, u, e, MaxRaceContainers)
    \/ \E r \in Launchers : LaunchCountRunning(r)
    \/ \E r \in Launchers : createContainerStart(r, nextId, Images)
    \/ \E r \in Launchers : createContainerInsert(r)
    \/ \E r \in Launchers : LaunchProgress(r)
    \/ \E u \in Users, c \in 1..MaxRaceContainers : StopBegin("user", u, c)
    \/ StopRuntime
    \/ StopUpdate

SpecRace == Init /\ [][NextRace]_vars

\* The life of the sandboxes together with the periodic cleanup, without
\* the proxy.
NextCleanup ==
    \/ \E u \in Users, e \in 1..MaxImages : LaunchCheckExisting(1, u, e, MaxContainers)
    \/ LaunchCountRunning(1)
    \/ createContainerStart(1, nextId, Images)
    \/ createContainerInsert(1)
    \/ LaunchProgress(1)
    \/ \E k \in {"user", "admin"}, u \in Users, c \in 1..MaxContainers : StopBegin(k, u, c)
    \/ StopRuntime
    \/ StopUpdate
    \/ \E c \in 1..MaxContainers : checkActivity(c)
    \/ \E c \in 1..MaxContainers : WatcherRuntime(c)
    \/ \E c \in 1..MaxContainers : WatcherUpdate(c)
    \/ \E s \in 1..MaxContainers : CompletionLookup(s)
    \/ CompletionUpdate
    \/ runCleanup
    \/ cleanupResourcesList
    \/ cleanupResourcesPurge
    \/ cleanupResourcesOrphans
    \/ cleanupResourcesPrune
    \/ startServer
    \/ Tick

SpecCleanup == Init /\ [][NextCleanup]_vars

\* The registry and the runtime under launches with any uuid (collisions
\* included), stops, user deletion and the cleanup; no time passes.
NextRegistry ==
    \/ \E u \in Users, e \in 1..MaxRegImages : LaunchCheckExisting(1, u, e, MaxRegContainers)
    \/ LaunchCountRunning(1)
    \/ \E s \in 1..MaxRegContainers : createContainerStart(1, s, Images)
    \/ createContainerInsert(1)
    \/ LaunchProgress(1)
    \/ \E k \in {"user", "admin"}, u \in Users, c \in 1..MaxRegContainers : StopBegin(k, u, c)
    \/ StopRuntime
    \/ StopUpdate
    \/ \E u \in Users : DeleteUser(u)
    \/ runCleanup
    \/ cleanupResourcesList
    \/ cleanupResourcesPurge
    \/ cleanupResourcesOrphans
    \/ cleanupResourcesPrune

SpecRegistry == Init /\ [][NextRegistry]_vars

\* The ids of the rows of docker_images when the catalog is smaller than
\* the ids launches are requested for.
Catalog == 1..MaxImages

\* The launches and stops of one subject, for exercises in the catalog and
\* not, while containers exit by themselves and the cleanup prunes them; no
\* time passes.
NextFaults ==
    \/ \E u \in Users, e \in 1..MaxRegImages : LaunchCheckExisting(1, u, e, MaxRegContainers)
    \/ LaunchCountRunning(1)
    \/ createContainerStart(1, nextId, Catalog)
    \/ \E st \in {"up", "exited"} : createContainerUnbound(1, nextId, Catalog, st)
    \/ createContainerInsert(1)
    \/ LaunchProgress(1)
    \/ \E k \in {"user", "admin"}, u \in Users, c \in 1..MaxRegContainers : StopBegin(k, u, c)
    \/ StopRuntime
    \/ StopUpdate
    \/ \E c \in 1..MaxRegContainers : ContainerExits(c)
    \/ runCleanup
    \/ runCleanupSkipped
    \/ \E pruned \in BOOLEAN : cleanupResourcesThrows(pruned)
    \/ cleanupResourcesList
    \/ cleanupResourcesPurge
    \/ cleanupResourcesOrphans
    \/ cleanupResourcesPrune

SpecFaults == Init /\ [][NextFaults]_vars

\* The progress table under concurrent launches, granted, denied and
\* failed, with stops and completion callbacks; no time passes.
NextProgress ==
    \/ \E r \in Launchers, u \in Users, e \in 1..MaxRegImages :
          LaunchCheckExisting(r, u, e, MaxRegContainers)
    \/ \E r \in Launchers : LaunchCountRunning(r)
    \/ \E r \in Launchers : createContainerStart(r, nextId, Catalog)
    \/ \E r \in Launchers : createContainerUnbound(r, nextId, Catalog, "up")
    \/ \E r \in Launchers : createContainerInsert(r)
    \/ \E r \in Launchers : LaunchProgress(r)
    \/ \E u \in Requesters, c \in 1..MaxRegContainers : StopBegin("user", u, c)
    \/ StopRuntime
    \/ StopUpdate
    \/ \E s \in 1..MaxRegContainers : CompletionLookup(s)
    \/ CompletionUpdate

SpecProgress == Init /\ [][NextProgress]_vars

\* One launch after the other by one subject, over MaxRaceImages exercises,
\* with completion callbacks; no time passes.
NextQuota ==
    \/ \E u \in Users, e \in 1..MaxRaceImages : LaunchCheckExisting(1, u, e, MaxRaceContainers)
    \/ LaunchCountRunning(1)
    \/ createContainerStart(1, nextId, Images)
    \/ createContainerInsert(1)
    \/ LaunchProgress(1)
    \/ \E s \in 1..MaxRaceContainers : CompletionLookup(s)
    \/ CompletionUpdate

SpecQuota == Init /\ [][NextQuota]_vars

\* The router: requests for any of Hostnames while sandboxes are launched,
\* stopped and completed; no time passes.
NextRouter ==
    \/ \E u \in Users, e \in 1..MaxImages : LaunchCheckExisting(1, u, e, MaxContainers)
    \/ LaunchCountRunning(1)
    \/ createContainerStart(1, nextId, Images)
    \/ createContainerInsert(1)
    \/ LaunchProgress(1)
    \/ \E k \in {"user", "admin"}, u \in Users, c \in 1..MaxContainers : StopBegin(k, u, c)
    \/ StopRuntime
    \/ StopUpdate
    \/ \E s \in 1..MaxContainers : CompletionLookup(s)
    \/ CompletionUpdate
    \/ \E h \in Hostnames : subdomainDispatch(h)
    \/ subdomainHandlerRespond

SpecRouter == Init /\ [][NextRouter]_vars

\* The uploads of bundles whose level is any of UploadLevels.
NextBundle ==
    \/ \E level \in UploadLevels : UploadValidate(level)
    \/ UploadInsert

SpecBundle == Init /\ [][NextBundle]_vars

\* The uploads of any of Bundles, with builds and inserts that succeed or
\* fail.
NextUpload ==
    \/ \E b \in Bundles : UploadBundle(b)
    \/ \E ok \in BOOLEAN : UploadBuild(ok)
    \/ \E ok \in BOOLEAN : UploadInsertRow(ok)

SpecUpload == Init /\ [][NextUpload]_vars

\* ================================================================ claims

\* C1: in every reachable state a subject u and an exercise e have at most
\* one container record with status 'running'.
C1_OneRunningPerExercise ==
    \A u \in Users, e \in Images : Cardinality(RunningFor(u, e)) <= 1

\* C2: of two launches of the same subject for the same exercise that ran
\* concurrently with no running record before them, only one succeeds: two
\* distinct launch requests never both end with a success and a running
\* record each.
C2_OneLaunchWins ==
    \A r1, r2 \in Launchers :
        ( /\ launch[r1].pc = "done" /\ launch[r1].res = "ok"
          /\ launch[r2].pc = "done" /\ launch[r2].res = "ok"
          /\ launch[r1].user = launch[r2].user
          /\ launch[r1].image = launch[r2].image
          /\ rows[launch[r1].cid].status = "running"
          /\ rows[launch[r2].cid].status = "running" )
        => r1 = r2

\* C3: in every reachable state a subject has at most MAX_PER_USER container
\* records with status 'running', whatever the interleaving of its launches
\* for different exercises.
C3_RunningWithinQuota ==
    \A u \in Users : Cardinality(RunningOf(u)) <= MAX_PER_USER

\* C4: the status of a record is monotone: no step (launch, stop, completion,
\* watcher, cleanup, server start) takes a record that is 'stopped' or
\* 'completed' back to 'running'.
C4_NeverBackToRunning ==
    [][\A c \in ContainerIds :
          rows[c].status \in {"stopped", "completed"} => rows'[c].status # "running"]_vars

\* C4 witness: a record that was completed and then stopped, with both events
\* journalled, and is not running.
C4_Witness ==
    \E c \in ContainerIds :
        /\ rows[c].status = "stopped"
        /\ logs[c].completed > 0
        /\ logs[c].stopped > 0

\* C5: the last step of a stop (of a request or of a watcher) on a record
\* whose status is 'completed' leaves the status 'completed'.
C5_StopKeepsCompleted ==
    [][\A c \in ContainerIds :
          ( /\ rows[c].status = "completed"
            /\ \/ StopUpdate /\ stopReq.cid = c
               \/ WatcherUpdate(c) )
          => rows'[c].status = "completed"]_vars

C7_LifetimeBound ==
    \A c \in ContainerIds :
        rows[c].status = "running"
        => now - rows[c].created <= CONTAINER_MAX_LIFETIME + CHECK_INTERVAL

\* C8: a watched container that had no activity touch for
\* CONTAINER_IDLE_TIMEOUT has its watcher's check due at once; that check
\* decides to stop it; and when the watcher's stop returns the record is
\* 'stopped', the running-only lookup by its subdomain finds nothing, and a
\* container_stopped event is in the journal.
C8_IdleReaped ==
    /\ [](\A c \in ContainerIds :
            (watcher[c].pc = "wait" /\ now - watcher[c].last >= CONTAINER_IDLE_TIMEOUT)
            => watcher[c].timer = now)
    /\ [][\A c \in ContainerIds :
            /\ (checkActivity(c) /\ now - watcher[c].last >= CONTAINER_IDLE_TIMEOUT)
               => watcher'[c].pc = "runtime"
            /\ (WatcherUpdate(c) /\ rows[c].status # "none")
               => /\ rows'[c].status = "stopped"
                  /\ \A d \in ContainerIds :
                        ~(rows'[d].status = "running" /\ rows'[d].sub = watcher[c].sub)
                  /\ logs'[c].stopped > 0]_vars

\* C8 witness: a watcher has ended after stopping its container for idleness
\* (before the lifetime limit): the record is stopped, the lookup is empty,
\* the event is journalled.
C8_Witness ==
    \E c \in ContainerIds :
        /\ watcher[c].pc = "ended"
        /\ rows[c].status = "stopped"
        /\ now - rows[c].created < CONTAINER_MAX_LIFETIME
        /\ getContainerInfo(rows[c].sub) = {}
        /\ logs[c].stopped > 0
        /\ stopReq.pc = "idle"

\* C9: the watcher never decides to stop a container (record running, or
\* runtime container up) at a check where the time since the last proxied
\* request (since the launch when there was none) is below
\* CONTAINER_IDLE_TIMEOUT and the age is below
\* CONTAINER_MAX_LIFETIME; a proxied request to such a container resets
\* the idle window of its watcher; and a watcher's last-activity time never
\* moves back, so a touch can only delay the stop.
C9_NoEarlyReap ==
    [][\A c \in ContainerIds :
          /\ ( /\ checkActivity(c)
               /\ watcher'[c].pc = "runtime"
               /\ (rows[c].status = "running" \/ runtime[c].state = "up") )
             => ~( /\ now - Max(lastProxied[watcher[c].sub], watcher[c].start)
                         < CONTAINER_IDLE_TIMEOUT
                   /\ now - rows[c].created < CONTAINER_MAX_LIFETIME )
          /\ ( /\ subdomainHandlerRespond
               /\ proxy.port # 0
               /\ watcher[c].sub = proxy.sub
               /\ watcher[c].pc \in {"wait", "runtime", "update"}
               /\ (rows[c].status = "running" \/ runtime[c].state = "up") )
             => watcher'[c].last = now
          /\ ( /\ watcher[c].pc \in {"wait", "runtime", "update"}
               /\ watcher'[c].pc \in {"wait", "runtime", "update"} )
             => watcher'[c].last >= watcher[c].last]_vars

\* C9 witness: a running container older than the idle timeout whose watcher
\* has checked at this very time and re-armed, thanks to a proxied request
\* after its launch.
C9_Witness ==
    \E c \in ContainerIds :
        /\ rows[c].status = "running"
        /\ watcher[c].pc = "wait"
        /\ watcher[c].timer > now
        /\ now - watcher[c].start >= CONTAINER_IDLE_TIMEOUT
        /\ now - watcher[c].start < CONTAINER_MAX_LIFETIME
        /\ lastProxied[watcher[c].sub] > watcher[c].start
        /\ watcher[c].last = lastProxied[watcher[c].sub]

\* C10: the completion callback is idempotent: on the tables of any
\* reachable state, for any subdomain that has a record, running it twice
\* leaves every container status and every progress status as running it
\* once does.
C10_CompletionIdempotent ==
    \A s \in Subdomains :
        BySubdomain(s) # {} =>
            LET db == [rows |-> rows, progress |-> progress]
                once == handleExerciseCompletion(db, s)
                twice == handleExerciseCompletion(once, s)
            IN /\ \A c \in ContainerIds : twice.rows[c].status = once.rows[c].status
               /\ \A k \in Users \X Images : twice.progress[k].status = once.progress[k].status

\* C10 witness: the completion callback has run twice for one container; the
\* record and the progress are 'completed'.
C10_Witness ==
    \E c \in ContainerIds :
        /\ logs[c].completed = 2
        /\ compl.pc = "done"
        /\ compl.res = "ok"
        /\ rows[c].status = "completed"
        /\ progress[<<rows[c].user, rows[c].image>>].status = "completed"

\* C11: the cleanup is idempotent: run twice in succession on the tables and
\* the runtime of any reachable state, with nothing in between, the second
\* run leaves the runtime containers and the network as the first run left
\* them.
C11_CleanupIdempotent ==
    LET once == cleanupResources([rows |-> rows, runtime |-> runtime, network |-> network], now)
        twice == cleanupResources(once, now)
    IN /\ twice.runtime = once.runtime
       /\ twice.network = once.network

\* C11 witness: a state with two orphans at least, so that the first run
\* removes containers and the second finds nothing left to remove.
C11_Witness ==
    LET st == [rows |-> rows, runtime |-> runtime, network |-> network]
        once == cleanupResources(st, now)
    IN /\ Cardinality({c \in ContainerIds :
                          runtime[c].state = "up" /\ once.runtime[c].state = "absent"}) >= 2
       /\ cleanupResources(once, now).runtime = once.runtime

\* C12: no two rows of containers (of any status) have the same subdomain,
\* and the insert of a launch whose subdomain is that of an existing row is
\* rejected: the table is unchanged and the launch ends with an error.
C12_SubdomainUnique ==
    /\ [](\A c1, c2 \in ContainerIds :
            (c1 # c2 /\ rows[c1].status # "none" /\ rows[c2].status # "none")
            => rows[c1].sub # rows[c2].sub)
    /\ [][\A r \in Launchers :
            ( /\ createContainerInsert(r)
              /\ \E c \in ContainerIds :
                    rows[c].status # "none" /\ rows[c].sub = launch[r].sub )
            => /\ rows' = rows
               /\ launch'[r].pc = "done"
               /\ launch'[r].res = "error"]_vars

\* C12 witness: a launch whose container was created has ended with an error
\* and without a row, its subdomain being that of another container's row.
C12_Witness ==
    /\ launch[1].pc = "done"
    /\ launch[1].res = "error"
    /\ launch[1].cid # 0
    /\ rows[launch[1].cid].status = "none"
    /\ \E c \in ContainerIds :
          c # launch[1].cid /\ rows[c].status # "none" /\ rows[c].sub = launch[1].sub

C14_QuotaDenied ==
    [][\A r \in Launchers :
          ( /\ LaunchCountRunning(r)
            /\ Cardinality({c \in ContainerIds :
                               rows[c].status = "running" /\ rows[c].user = launch[r].user})
                  >= MAX_PER_USER )
          => /\ launch'[r].pc = "done"
             /\ launch'[r].res = "QuotaExceeded"
             /\ rows' = rows
             /\ runtime' = runtime
             /\ nextId' = nextId]_vars

\* C14 witness: a launch has been denied with QuotaExceeded while its user
\* has MAX_PER_USER running records, each with its container up.
C14_Witness ==
    \E r \in Launchers :
        /\ launch[r].pc = "done"
        /\ launch[r].res = "QuotaExceeded"
        /\ Cardinality({c \in ContainerIds :
                           /\ rows[c].status = "running"
                           /\ rows[c].user = launch[r].user
                           /\ runtime[c].state = "up"}) = MAX_PER_USER
        /\ nextId - 1 = MAX_PER_USER

\* C15: an upload is accepted exactly when its level is a case variant of
\* beginner, intermediate or advanced; the value stored is the small-letter
\* word; any other level is refused with InvalidBundle and inserts no row.
C15_LevelCaseInsensitive ==
    /\ [](LET IsVariant(str, word) ==
                  /\ Len(str) = Len(word)
                  /\ \A i \in 1..Len(word) :
                        \/ str[i] = word[i]
                        \/ \E k \in 1..Len(Letters) :
                              Letters[k] = word[i] /\ Capitals[k] = str[i]
          IN /\ upload.pc # "idle" =>
                  ( (upload.pc = "build" \/ upload.res = "ok")
                    <=> \E w \in validLevels : IsVariant(upload.level, w) )
             /\ (upload.pc = "build" \/ upload.res = "ok") =>
                  /\ upload.levelValue \in validLevels
                  /\ IsVariant(upload.level, upload.levelValue)
             /\ (upload.pc = "done" /\ upload.res # "ok") => upload.res = "InvalidBundle"
             /\ exercises \subseteq validLevels)
    /\ [][upload'.res = "InvalidBundle" => exercises' = exercises]_vars

\* C15 witness: an upload whose level is written with capitals has been
\* accepted and its small-letter value is in the catalog.
C15_Witness ==
    /\ upload.pc = "done"
    /\ upload.res = "ok"
    /\ upload.level # upload.levelValue
    /\ upload.levelValue \in exercises

\* C16: the UPDATE of the completion handler leaves a record whose status is
\* 'stopped' with the status 'stopped'.
C16_CompletionKeepsStopped ==
    [][CompletionUpdate =>
          \A c \in ContainerIds : rows[c].status = "stopped" => rows'[c].status = "stopped"]_vars

\* C17: when nothing is in flight (no launch, stop or cleanup is between
\* two steps) and a record is 'running' while its runtime container is
\* gone, a cleanup run marks the record 'stopped'.
C17_CleanupRepairsRunning ==
    LET Quiescent ==
            /\ \A r \in Launchers : launch[r].pc \in {"idle", "done"}
            /\ stopReq.pc \in {"idle", "done"}
            /\ \A c \in ContainerIds : watcher[c].pc \notin {"runtime", "update"}
            /\ cleanup.pc = "idle"
    IN \A c \in ContainerIds :
          (Quiescent /\ rows[c].status = "running" /\ runtime[c].state # "up")
          => cleanupResources([rows |-> rows, runtime |-> runtime, network |-> network],
                              now).rows[c].status = "stopped"

\* C18: a step of a cleanup run removes a runtime container only if no row
\* of containers has its id.
C18_CleanupRemovesOnlyOrphans ==
    [][(cleanupResourcesOrphans \/ cleanupResourcesPrune) =>
          \A c \in ContainerIds :
              (runtime[c].state # "absent" /\ runtime'[c].state = "absent")
              => rows[c].status = "none"]_vars

\* C19: the DELETE of a cleanup run removes every row whose status is
\* 'stopped' or 'completed' and whose created_at is more than PURGE_AGE in
\* the past, and no row whose status is 'running'.
C19_CleanupPurgesTerminal ==
    [][cleanupResourcesPurge =>
          \A c \in ContainerIds :
              /\ (rows[c].status \in {"stopped", "completed"} /\ rows[c].created < now - PURGE_AGE)
                 => rows'[c].status = "none"
              /\ rows[c].status = "running" => rows'[c] = rows[c]]_vars

\* C20: no step removes a row of containers in a terminal state whose
\* created_at is less than PURGE_AGE in the past.
C20_TerminalRetained ==
    [][\A c \in ContainerIds :
          (rows[c].status \in {"stopped", "completed"} /\ now - rows[c].created < PURGE_AGE)
          => rows'[c].status # "none"]_vars

\* C21: a launch that has returned an error has left no live container in
\* the runtime: when the container was created and started and the insert
\* of its row failed, it is stopped and removed before the error is returned.
C21_LaunchRollsBack ==
    \A r \in Launchers :
        (launch[r].pc = "done" /\ launch[r].res = "error" /\ launch[r].cid # 0)
        => runtime[launch[r].cid].state # "up"

\* C22: a stopContainer call that found the row of its container and whose
\* container.stop() or container.remove() failed (the container had exited
\* or was gone) has, when the stop request has been answered, left the row
\* non-running and the activity entry of its subdomain evicted.
C22_StopBestEffort ==
    (stopReq.pc = "done" /\ stopReq.found /\ (stopReq.stopErr \/ stopReq.removeErr))
    => /\ rows[stopReq.cid].status # "running"
       /\ \A s \in Subdomains : activity[s] # stopReq.cid

\* A stop request has returned for a row that was 'running' while its
\* container had been pruned: both runtime calls failed, the row is 'stopped'.
C22_Witness ==
    /\ stopReq.pc = "done"
    /\ stopReq.res = "ok"
    /\ stopReq.found
    /\ stopReq.stopErr
    /\ stopReq.removeErr
    /\ rows[stopReq.cid].status = "stopped"
    /\ logs[stopReq.cid].stopped = 1

\* C23: a launch for an exercise id that is not in the catalog is answered
\* 404, has created no container and no row, and has left the progress of
\* the subject for that id as it was.
C23_UnknownExerciseDenied ==
    \A r \in Launchers :
        (launch[r].pc = "done" /\ launch[r].image \notin Catalog)
        => /\ LaunchStatus(launch[r].res) = 404
           /\ launch[r].cid = 0
           /\ \A c \in ContainerIds : rows[c].image # launch[r].image
           /\ progress[<<launch[r].user, launch[r].image>>] = NoProgress

\* C24: every row of containers carries a non-empty host port; and a launch
\* whose container had no host port binding after start has stopped and
\* removed the container, is answered RuntimeRefused and has inserted no row.
C24_HostPortOrRollback ==
    /\ \A c \in ContainerIds : rows[c].status # "none" => rows[c].port # 0
    /\ \A r \in Launchers :
          (launch[r].pc = "done" /\ launch[r].res \in {"TypeError", "RuntimeRefused"})
          => /\ launch[r].res = "RuntimeRefused"
             /\ runtime[launch[r].cid].state = "absent"
             /\ rows[launch[r].cid].status = "none"

\* C25: a completion callback for a subdomain that no row of containers has
\* is answered 404 and changes no status, no progress and no journal entry.
C25_CompletionUnknownDenied ==
    [][\A s \in Subdomains :
          (CompletionLookup(s) /\ BySubdomain(s) = {})
          => /\ compl'.pc = "done"
             /\ CompletionHttpStatus(compl'.res) = 404
             /\ UNCHANGED <<rows, progress, logs>>]_vars

C27_RouterForwardsOnlyRunning ==
    [][/\ \A h \in Hostnames :
             subdomainDispatch(h) =>
                LET IsUUIDv4(str) == validateUUID(str) /\ str[15] = "4"
                    running == {c \in ContainerIds : /\ rows[c].status = "running"
                                                     /\ uuidv4(rows[c].sub) = h[1]}
                IN IF Len(h) < 3 \/ ~IsUUIDv4(h[1])
                   THEN proxy'.pc = "done" /\ proxy'.res = "next"
                   ELSE /\ proxy'.pc = "respond"
                        /\ IF running = {} THEN proxy'.port = 0
                           ELSE \E c \in running : proxy'.port = rows[c].port /\ proxy'.port # 0
       /\ subdomainHandlerRespond =>
             proxy'.res = (IF proxy.port = 0 THEN "404" ELSE "forwarded")]_vars

\* C28: the watcher of a row that a stop request has made 'stopped' makes
\* no stopContainer call of its own any more: it never passes from waiting
\* into stopContainer (the runtime stop and remove, the container_stopped
\* event and the status UPDATE that follow).
C28_WatcherCancelled ==
    [][\A c \in ContainerIds :
          (rows[c].status = "stopped" /\ watcher[c].pc = "wait")
          => watcher'[c].pc # "runtime"]_vars

\* C29: never more than one cleanup run is in progress; a timer firing
\* during a run starts nothing and leaves the run as it is; and whenever a
\* run has ended, by success or by failure, the flag is clear, so that the
\* next firing starts a run.
C29_CleanupSingleFlight ==
    /\ [](/\ cleanup.runs <= 1
          /\ cleanup.flag <=> cleanup.pc # "idle")
    /\ [][/\ runCleanupSkipped => cleanup' = [cleanup EXCEPT !.skipped = TRUE]
          /\ (cleanupResourcesPrune \/ \E pruned \in BOOLEAN : cleanupResourcesThrows(pruned))
             => (~cleanup'.flag /\ cleanup'.runs = 0)]_vars

\* After a run that failed, and during which a firing was skipped, a later
\* firing has started a new run, the only one in progress.
C29_Witness ==
    /\ cleanup.last = "failed"
    /\ cleanup.pc = "purge"
    /\ cleanup.flag
    /\ cleanup.runs = 1
    /\ cleanup.skipped

\* C30: when the server has started again, every row that is still
\* 'running' has an activity entry and a watcher whose idle and lifetime
\* clocks start at the row's created_at.
C30_RestartReseedsWatchers ==
    [][startServer =>
          \A c \in ContainerIds :
              rows'[c].status = "running"
              => /\ activity'[rows'[c].sub] = c
                 /\ watcher'[c].pc = "wait"
                 /\ watcher'[c].start = rows'[c].created
                 /\ watcher'[c].last = rows'[c].created]_vars

C32_ForeignStopDenied ==
    [][\A u \in Requesters, c \in ContainerIds :
          (StopBegin("user", u, c) /\ ~(rows[c].status # "none" /\ rows[c].user = u))
          => /\ stopReq'.pc = "done"
             /\ stopReq'.res = "404"
             /\ UNCHANGED <<runtime, rows, activity, logs>>]_vars

\* A stop request for a running container of another subject has been
\* answered 404: the row is 'running', the container up, the entry in place.
C32_Witness ==
    /\ stopReq.pc = "done"
    /\ stopReq.res = "404"
    /\ stopReq.found
    /\ rows[stopReq.cid].status = "running"
    /\ runtime[stopReq.cid].state = "up"
    /\ activity[rows[stopReq.cid].sub] = stopReq.cid
    /\ logs[stopReq.cid].stopped = 0

\* C33: an admin force-stop for a container id that has no row in
\* containers is answered 404, and has added no container_stopped event and
\* changed no row.
C33_AdminStopUnknownDenied ==
    [][(stopReq.kind = "admin" /\ ~stopReq.found /\ stopReq.pc # "done" /\ stopReq'.pc = "done")
       => /\ StopStatus(stopReq'.res) = 404
          /\ logs' = logs
          /\ rows' = rows]_vars

\* C34: whenever a stopContainer call appends a container_stopped event,
\* the event carries a reason (user or admin for a stop request, idle or
\* lifetime for the watcher).
C34_StoppedEventHasReason ==
    [][\A c \in ContainerIds :
          logs'[c].stopped > logs[c].stopped => "reason" \in logs'[c].details]_vars

\* C35: when the upload handler has answered, neither the upload archive
\* nor the extraction working directory is left, whatever the exit path;
\* and a row is inserted into docker_images only by an upload whose image
\* build reported success.
C35_UploadCleansUp ==
    /\ [](upload.pc = "done" => (~upload.archive /\ ~upload.workdir))
    /\ [][exercises' # exercises => (upload.built /\ upload'.res = "ok")]_vars

\* An upload whose image was built and whose insert was rejected has been
\* answered with the error: no row, no archive, no working directory.
C35_Witness ==
    /\ upload.pc = "done"
    /\ upload.res = "BuildFailed"
    /\ upload.built
    /\ exercises = {}
    /\ ~upload.archive
    /\ ~upload.workdir

\* C36: for every subject, the containers that are up in the runtime and
\* labelled with that subject number at most MAX_PER_USER, containers whose
\* row is 'completed' included.
C36_LiveWithinQuota ==
    \A u \in Users :
        Cardinality({c \in ContainerIds : runtime[c].state = "up" /\ runtime[c].user = u})
            <= MAX_PER_USER

\* C37: a run of the cleanup interleaved with a launch never removes the
\* container of that launch: while the launch is between docker's start and
\* its answer (the row not yet inserted, or inserted and the progress upsert
\* pending), a turn of the orphan loop leaves its container up.
C37_CleanupSparesLaunch ==
    [][cleanupResourcesOrphans =>
          \A r \in Launchers :
              (launch[r].pc \in {"insert", "progress"} /\ runtime[launch[r].cid].state = "up")
                  => runtime'[launch[r].cid].state = "up"]_vars

\* C38: for every container at most one container_stopped event is written,
\* whatever stops it (owner, admin, watcher) and however often.
C38_StoppedEventOnce ==
    \A c \in ContainerIds : logs[c].stopped <= 1

\* C39: when the deletion of a user returns, no container labelled with that
\* user is up in the runtime, and a row the deletion removes belongs to a
\* container that is no longer up.
C39_DeleteUserStopsContainers ==
    [][\A u \in Users :
          DeleteUser(u) =>
              \A c \in ContainerIds :
                  /\ ~(runtime'[c].state = "up" /\ runtime'[c].user = u)
                  /\ (rows[c].status # "none" /\ rows'[c].status = "none")
                         => runtime'[c].state # "up"]_vars

====
